---- MODULE Spec2Model ----
(***************************************************************************)
(* Model of the HashMap class of src/hashMap.js: a string-keyed hash table *)
(* with separate chaining, a load-factor triggered doubling resize, and    *)
(* the operations set, get, has, remove, length, clear, keys, values and   *)
(* entries.                                                                *)
(*                                                                         *)
(* Keys are JavaScript strings, modelled as sequences of UTF-16 code       *)
(* units (what charCodeAt returns).  Values are opaque payloads; NULL      *)
(* stands for the JavaScript null.  A bucket slot is either null or an     *)
(* array of entries; the two are kept apart by the isNull field, because   *)
(* remove leaves an empty array behind while clear and resize leave null.  *)
(* maxLoadFactor is a real number, modelled as a fraction <<num, den>>;    *)
(* size / bucketCount >= maxLoadFactor is decided by cross multiplication, *)
(* which agrees with the IEEE-754 comparison for the fractions used here   *)
(* (the operands are small integers, so two unequal quotients differ by    *)
(* far more than one ulp and equal quotients round to the same double).    *)
(***************************************************************************)
EXTENDS Integers, Sequences, FiniteSets, TLC

\* ---- bounds of the model ------------------------------------------------
MaxInitialCapacity == 1
MaxBucketCount == 16
MaxHashBuckets == 16

\* ---- program constants --------------------------------------------------
DefaultInitialCapacity == 16
DefaultMaxLoadFactor == <<3, 4>>
primeNumber == 31

\* ---- inputs -------------------------------------------------------------
\* "", "d", "am": all three share bucket 0 of a table of 1, 2 or 4 buckets
\* (so that a bucket can hold three entries); at 8 buckets "d" and "am" move
\* to bucket 4 together, and at 16 buckets they part (4 and 12).
Keys == { <<>>, <<100>>, <<97, 109>> }
NULL == "null"
Values == { NULL, "30", "31" }
InitialCapacities == (1..MaxInitialCapacity) \cup {DefaultInitialCapacity}
LoadFactors == { DefaultMaxLoadFactor, <<1, 1>> }

VARIABLES bucketCount, buckets, size, maxLoadFactor,
          last, pre, forcedResizes, setsOnly, lastSet

vars == <<bucketCount, buckets, size, maxLoadFactor,
          last, pre, forcedResizes, setsOnly, lastSet>>

\* ---- representation -----------------------------------------------------
NullBucket == [isNull |-> TRUE, entries |-> <<>>]
EmptyArray == [isNull |-> FALSE, entries |-> <<>>]

this == [bucketCount |-> bucketCount, buckets |-> buckets, size |-> size,
         maxLoadFactor |-> maxLoadFactor]

constructor(initialCapacity, mlf) ==
  [bucketCount |-> initialCapacity,
   buckets |-> [i \in 1..initialCapacity |-> NullBucket],
   size |-> 0,
   maxLoadFactor |-> mlf]

\* ---- hash ---------------------------------------------------------------
RECURSIVE hashLoop_addBeforeMultiply(_, _, _, _)
hashLoop_addBeforeMultiply(key, i, hashCode, nbuckets) ==
  IF i > Len(key) THEN hashCode
  ELSE hashLoop_addBeforeMultiply(key, i + 1,
         (primeNumber * (hashCode + key[i])) % nbuckets, nbuckets)

RECURSIVE hashLoop(_, _, _, _)
hashLoop(key, i, hashCode, nbuckets) ==
  IF i > Len(key) THEN hashCode
  ELSE hashLoop(key, i + 1, (primeNumber * hashCode + key[i]) % nbuckets, nbuckets)

hash(key, nbuckets) == hashLoop(key, 1, 0, nbuckets)

\* ---- loadFactor ---------------------------------------------------------
\* the quotient size / bucketCount, as a fraction
loadFactor(t) == <<t.size, t.bucketCount>>

\* a >= b for fractions with positive denominators
FracGeq(a, b) == a[1] * b[2] >= b[1] * a[2]

\* ---- walking the table --------------------------------------------------
\* the entries met by buckets.forEach(bucket => bucket.forEach(...)), in order
RECURSIVE walkFrom(_, _)
walkFrom(bks, i) ==
  IF i > Len(bks) THEN <<>>
  ELSE (IF bks[i].isNull THEN <<>> ELSE bks[i].entries) \o walkFrom(bks, i + 1)

walk(t) == walkFrom(t.buckets, 1)

keys(t) ==
  LET w == walk(t) IN [i \in 1..Len(w) |-> w[i].key]

values_reversed(t) ==
  LET w == walk(t) IN [i \in 1..Len(w) |-> w[Len(w) + 1 - i].value]

values(t) ==
  LET w == walk(t) IN [i \in 1..Len(w) |-> w[i].value]

entries(t) ==
  LET w == walk(t) IN [i \in 1..Len(w) |-> <<w[i].key, w[i].value>>]

\* ---- resize -------------------------------------------------------------
\* one step of the rehash loop: place entry in its bucket of newBuckets
rehashOne_overwrite(newBuckets, entry, newBucketCount) ==
  LET index == hash(entry.key, newBucketCount)
  IN [newBuckets EXCEPT ![index + 1] = [isNull |-> FALSE, entries |-> <<entry>>]]

rehashOne_oldCount(newBuckets, entry, newBucketCount) ==
  LET index == hash(entry.key, newBucketCount \div 2)
      bucket == IF newBuckets[index + 1].isNull THEN EmptyArray
                ELSE newBuckets[index + 1]
  IN [newBuckets EXCEPT ![index + 1] =
        [bucket EXCEPT !.entries = Append(@, entry)]]

rehashOne(newBuckets, entry, newBucketCount) ==
  LET index == hash(entry.key, newBucketCount)
      bucket == IF newBuckets[index + 1].isNull THEN EmptyArray
                ELSE newBuckets[index + 1]
  IN [newBuckets EXCEPT ![index + 1] =
        [bucket EXCEPT !.entries = Append(@, entry)]]

RECURSIVE rehash(_, _, _, _)
rehash(es, i, newBuckets, newBucketCount) ==
  IF i > Len(es) THEN newBuckets
  ELSE rehash(es, i + 1, rehashOne(newBuckets, es[i], newBucketCount),
              newBucketCount)

resize_staleCount(t) ==
  LET newBucketCount == t.bucketCount * 2
      newBuckets == [i \in 1..newBucketCount |-> NullBucket]
  IN [t EXCEPT !.buckets = rehash(walk(t), 1, newBuckets, newBucketCount)]

resize(t) ==
  LET newBucketCount == t.bucketCount * 2
      newBuckets == [i \in 1..newBucketCount |-> NullBucket]
  IN [t EXCEPT !.buckets = rehash(walk(t), 1, newBuckets, newBucketCount),
               !.bucketCount = newBucketCount]

\* ---- set ----------------------------------------------------------------
\* the position of the first entry of es with the given key, 0 when none
findIndex_firstOnly(es, key) ==
  IF Len(es) >= 1 /\ es[1].key = key THEN 1 ELSE 0

findIndex(es, key) ==
  IF \E i \in 1..Len(es) : es[i].key = key
  THEN CHOOSE i \in 1..Len(es) :
         es[i].key = key /\ \A j \in 1..(i - 1) : es[j].key # key
  ELSE 0

needsResize_strict(t) ==
  loadFactor(t)[1] * t.maxLoadFactor[2] > t.maxLoadFactor[1] * loadFactor(t)[2]

needsResize(t) == FracGeq(loadFactor(t), t.maxLoadFactor)

set_hashBeforeResize(t, key, value) ==
  LET index == hash(key, t.bucketCount)
      t1 == IF needsResize(t) THEN resize(t) ELSE t
      bucket == IF t1.buckets[index + 1].isNull THEN EmptyArray
                ELSE t1.buckets[index + 1]
      i == findIndex(bucket.entries, key)
  IN IF i # 0
     THEN [t1 EXCEPT !.buckets[index + 1] =
             [bucket EXCEPT !.entries[i].value = value]]
     ELSE [t1 EXCEPT !.buckets[index + 1] =
             [bucket EXCEPT !.entries = Append(@, [key |-> key, value |-> value])],
                     !.size = @ + 1]

set_alwaysPush(t, key, value) ==
  LET t1 == IF needsResize(t) THEN resize(t) ELSE t
      index == hash(key, t1.bucketCount)
      bucket == IF t1.buckets[index + 1].isNull THEN EmptyArray
                ELSE t1.buckets[index + 1]
  IN [t1 EXCEPT !.buckets[index + 1] =
        [bucket EXCEPT !.entries = Append(@, [key |-> key, value |-> value])],
                !.size = @ + 1]

set(t, key, value) ==
  LET t1 == IF needsResize(t) THEN resize(t) ELSE t
      index == hash(key, t1.bucketCount)
      bucket == IF t1.buckets[index + 1].isNull THEN EmptyArray
                ELSE t1.buckets[index + 1]
      i == findIndex(bucket.entries, key)
  IN IF i # 0
     THEN [t1 EXCEPT !.buckets[index + 1] =
             [bucket EXCEPT !.entries[i].value = value]]
     ELSE [t1 EXCEPT !.buckets[index + 1] =
             [bucket EXCEPT !.entries = Append(@, [key |-> key, value |-> value])],
                     !.size = @ + 1]

\* ---- get, has, length ---------------------------------------------------
get_firstOnly(t, key) ==
  LET index == hash(key, t.bucketCount)
      bucket == t.buckets[index + 1]
      i == findIndex_firstOnly(bucket.entries, key)
  IN IF ~bucket.isNull /\ i # 0 THEN bucket.entries[i].value ELSE NULL

get(t, key) ==
  LET index == hash(key, t.bucketCount)
      bucket == t.buckets[index + 1]
      i == findIndex(bucket.entries, key)
  IN IF ~bucket.isNull /\ i # 0 THEN bucket.entries[i].value ELSE NULL

has(t, key) == get(t, key) # NULL

length(t) == t.size

\* ---- remove -------------------------------------------------------------
\* removal by moving the last element into the hole
splice_swapWithLast(es, i) ==
  IF i = Len(es) THEN SubSeq(es, 1, Len(es) - 1)
  ELSE SubSeq([es EXCEPT ![i] = es[Len(es)]], 1, Len(es) - 1)

splice(es, i) == SubSeq(es, 1, i - 1) \o SubSeq(es, i + 1, Len(es))

remove_noDecrement(t, key) ==
  LET index == hash(key, t.bucketCount)
      bucket == t.buckets[index + 1]
      i == findIndex(bucket.entries, key)
  IN IF ~bucket.isNull /\ i # 0
     THEN [table |-> [t EXCEPT !.buckets[index + 1].entries = splice(@, i)],
           ret |-> TRUE]
     ELSE [table |-> t, ret |-> FALSE]

remove_decrementOnMiss(t, key) ==
  LET index == hash(key, t.bucketCount)
      bucket == t.buckets[index + 1]
      i == findIndex(bucket.entries, key)
  IN IF ~bucket.isNull /\ i # 0
     THEN [table |-> [t EXCEPT !.buckets[index + 1].entries = splice(@, i),
                               !.size = @ - 1],
           ret |-> TRUE]
     ELSE [table |-> [t EXCEPT !.size = @ - 1], ret |-> FALSE]

remove_shrinks(t, key) ==
  LET index == hash(key, t.bucketCount)
      bucket == t.buckets[index + 1]
      i == findIndex(bucket.entries, key)
  IN IF ~bucket.isNull /\ i # 0
     THEN IF t.size = 1 /\ t.bucketCount > 1
          THEN [table |-> [t EXCEPT !.buckets = [j \in 1..1 |-> NullBucket],
                                    !.bucketCount = 1,
                                    !.size = 0],
                ret |-> TRUE]
          ELSE [table |-> [t EXCEPT !.buckets[index + 1].entries = splice(@, i),
                                    !.size = @ - 1],
                ret |-> TRUE]
     ELSE [table |-> t, ret |-> FALSE]

remove(t, key) ==
  LET index == hash(key, t.bucketCount)
      bucket == t.buckets[index + 1]
      i == findIndex(bucket.entries, key)
  IN IF ~bucket.isNull /\ i # 0
     THEN [table |-> [t EXCEPT !.buckets[index + 1].entries = splice(@, i),
                               !.size = @ - 1],
           ret |-> TRUE]
     ELSE [table |-> t, ret |-> FALSE]

\* ---- clear --------------------------------------------------------------
clear_keepSize(t) ==
  [t EXCEPT !.buckets = [i \in 1..Len(t.buckets) |-> NullBucket]]

clear_resetCapacity(t) ==
  [t EXCEPT !.buckets = [i \in 1..DefaultInitialCapacity |-> NullBucket],
            !.bucketCount = DefaultInitialCapacity,
            !.size = 0]

clear(t) ==
  [t EXCEPT !.buckets = [i \in 1..Len(t.buckets) |-> NullBucket],
            !.size = 0]

\* ---- the queries as calls --------------------------------------------
\* the table a query leaves behind and the value it returns; none of
\* get, has, length, loadFactor, keys, values, entries assigns a field
QueryOps == {"get", "has", "length", "loadFactor", "keys", "values", "entries"}

query_getCreatesBucket(t, op, key) ==
  [table |-> IF op = "get" /\ t.buckets[hash(key, t.bucketCount) + 1].isNull
             THEN [t EXCEPT !.buckets[hash(key, t.bucketCount) + 1] = EmptyArray]
             ELSE t,
   ret |-> CASE op = "get" -> get(t, key)
             [] op = "has" -> has(t, key)
             [] op = "length" -> length(t)
             [] op = "loadFactor" -> loadFactor(t)
             [] op = "keys" -> keys(t)
             [] op = "values" -> values(t)
             [] op = "entries" -> entries(t)]

query(t, op, key) ==
  [table |-> t,
   ret |-> CASE op = "get" -> get(t, key)
             [] op = "has" -> has(t, key)
             [] op = "length" -> length(t)
             [] op = "loadFactor" -> loadFactor(t)
             [] op = "keys" -> keys(t)
             [] op = "values" -> values(t)
             [] op = "entries" -> entries(t)]

\* ---- observers used by the properties -----------------------------------
\* the number of entries with the given key anywhere in the table
occurrences(t, key) ==
  LET w == walk(t) IN Cardinality({i \in 1..Len(w) : w[i].key = key})

present(t, key) == occurrences(t, key) >= 1

\* the sum of the entry counts of buckets i, i+1, ...
RECURSIVE entryCountFrom(_, _)
entryCountFrom(bks, i) ==
  IF i > Len(bks) THEN 0
  ELSE Len(bks[i].entries) + entryCountFrom(bks, i + 1)

\* ---- the state machine --------------------------------------------------
UNSET == "unset"

install(t) ==
  /\ bucketCount' = t.bucketCount
  /\ buckets' = t.buckets
  /\ size' = t.size
  /\ maxLoadFactor' = t.maxLoadFactor

Init ==
  /\ \E c \in InitialCapacities, f \in LoadFactors :
       LET t == constructor(c, f)
       IN /\ bucketCount = t.bucketCount
          /\ buckets = t.buckets
          /\ size = t.size
          /\ maxLoadFactor = t.maxLoadFactor
          /\ pre = t
  /\ last = [op |-> "new", key |-> <<>>, value |-> NULL, ret |-> FALSE,
             resized |-> FALSE, afterClear |-> FALSE]
  /\ forcedResizes = 0
  /\ setsOnly = TRUE
  /\ lastSet = [k \in Keys |-> UNSET]

Set(key, value) ==
  /\ needsResize(this) => bucketCount * 2 <= MaxBucketCount
  /\ install(set(this, key, value))
  /\ pre' = this
  /\ last' = [op |-> "set", key |-> key, value |-> value, ret |-> FALSE,
              resized |-> needsResize(this),
              afterClear |-> (last.op = "clear")]
  /\ forcedResizes' = IF needsResize(this) THEN forcedResizes + 1
                      ELSE forcedResizes
  /\ lastSet' = [lastSet EXCEPT ![key] = value]
  /\ UNCHANGED setsOnly

Remove(key) ==
  /\ install(remove(this, key).table)
  /\ pre' = this
  /\ last' = [op |-> "remove", key |-> key, value |-> NULL,
              ret |-> remove(this, key).ret,
              resized |-> FALSE, afterClear |-> FALSE,
              had |-> (lastSet[key] # UNSET)]
  /\ setsOnly' = FALSE
  /\ lastSet' = [lastSet EXCEPT ![key] = UNSET]
  /\ UNCHANGED forcedResizes

Clear ==
  /\ install(clear(this))
  /\ pre' = this
  /\ last' = [op |-> "clear", key |-> <<>>, value |-> NULL, ret |-> FALSE,
              resized |-> FALSE, afterClear |-> FALSE]
  /\ setsOnly' = FALSE
  /\ lastSet' = [k \in Keys |-> UNSET]
  /\ UNCHANGED forcedResizes

Resize ==
  /\ bucketCount * 2 <= MaxBucketCount
  /\ install(resize(this))
  /\ pre' = this
  /\ last' = [op |-> "resize", key |-> <<>>, value |-> NULL, ret |-> FALSE,
              resized |-> TRUE, afterClear |-> FALSE]
  /\ setsOnly' = FALSE
  /\ UNCHANGED <<forcedResizes, lastSet>>

\* a query: the table it leaves, its result, and, when the call before it
\* was the same query, that call's result
Query(op, key) ==
  /\ install(query(this, op, key).table)
  /\ pre' = this
  /\ last' = [op |-> op, key |-> key, value |-> NULL,
              ret |-> query(this, op, key).ret,
              resized |-> FALSE, afterClear |-> FALSE,
              repeated |-> (last.op = op /\ last.key = key),
              prevRet |-> IF last.op = op /\ last.key = key THEN last.ret
                          ELSE query(this, op, key).ret]
  /\ UNCHANGED <<forcedResizes, setsOnly, lastSet>>

Get(key) == Query("get", key)
Has(key) == Query("has", key)
Length == Query("length", <<>>)
LoadFactor == Query("loadFactor", <<>>)
KeysQuery == Query("keys", <<>>)
ValuesQuery == Query("values", <<>>)
EntriesQuery == Query("entries", <<>>)

Next ==
  \/ \E key \in Keys, value \in Values : Set(key, value)
  \/ \E key \in Keys : Remove(key)
  \/ Clear
  \/ Resize
  \/ \E key \in Keys : Get(key)
  \/ \E key \in Keys : Has(key)
  \/ Length
  \/ LoadFactor
  \/ KeysQuery
  \/ ValuesQuery
  \/ EntriesQuery

Spec == Init /\ [][Next]_vars

\* ---- construction with arbitrary arguments ------------------------------
\* The constructor stores its arguments unchecked.  A bucket count of 0 gives
\* an empty bucket array (a negative or fractional count makes new Array
\* throw a RangeError, so no object exists for those); every real number is
\* stored as maxLoadFactor.
AnyCapacities == {0, 1}
AnyLoadFactors == { <<0, 1>>, DefaultMaxLoadFactor, <<3, 2>> }

InitAnyArgs ==
  /\ \E c \in AnyCapacities, f \in AnyLoadFactors :
       LET t == constructor(c, f)
       IN /\ bucketCount = t.bucketCount
          /\ buckets = t.buckets
          /\ size = t.size
          /\ maxLoadFactor = t.maxLoadFactor
          /\ pre = t
  /\ last = [op |-> "new", key |-> <<>>, value |-> NULL, ret |-> FALSE,
             resized |-> FALSE, afterClear |-> FALSE]
  /\ forcedResizes = 0
  /\ setsOnly = TRUE
  /\ lastSet = [k \in Keys |-> UNSET]

\* set on a table of 0 buckets: size / bucketCount is NaN, so no resize;
\* buckets[index] is undefined, which is not === null, and reading its
\* length throws a TypeError before anything is assigned
SetOnZeroBuckets(key, value) ==
  /\ bucketCount = 0
  /\ last' = [op |-> "set", key |-> key, value |-> value, ret |-> "TypeError",
              resized |-> FALSE, afterClear |-> FALSE]
  /\ pre' = this
  /\ UNCHANGED <<bucketCount, buckets, size, maxLoadFactor,
                 forcedResizes, setsOnly, lastSet>>

\* get on a table of 0 buckets: buckets[index] is undefined, the result null
GetOnZeroBuckets(key) ==
  /\ bucketCount = 0
  /\ last' = [op |-> "get", key |-> key, value |-> NULL, ret |-> NULL,
              resized |-> FALSE, afterClear |-> FALSE]
  /\ pre' = this
  /\ UNCHANGED <<bucketCount, buckets, size, maxLoadFactor,
                 forcedResizes, setsOnly, lastSet>>

\* remove on a table of 0 buckets: buckets[index] is undefined, the result
\* false
RemoveOnZeroBuckets(key) ==
  /\ bucketCount = 0
  /\ last' = [op |-> "remove", key |-> key, value |-> NULL, ret |-> FALSE,
              resized |-> FALSE, afterClear |-> FALSE,
              had |-> (lastSet[key] # UNSET)]
  /\ pre' = this
  /\ UNCHANGED <<bucketCount, buckets, size, maxLoadFactor,
                 forcedResizes, setsOnly, lastSet>>

NextAnyArgs ==
  \/ bucketCount > 0 /\ \E key \in Keys, value \in Values : Set(key, value)
  \/ bucketCount > 0 /\ \E key \in Keys : Get(key)
  \/ bucketCount > 0 /\ \E key \in Keys : Remove(key)
  \/ \E key \in Keys, value \in Values : SetOnZeroBuckets(key, value)
  \/ \E key \in Keys : GetOnZeroBuckets(key)
  \/ \E key \in Keys : RemoveOnZeroBuckets(key)

SpecAnyArgs == InitAnyArgs /\ [][NextAnyArgs]_vars

\* ---- hash called on its own ---------------------------------------------
\* the keys of the tables, and "age" and "name"
HashKeys == Keys \cup { <<97, 103, 101>>, <<110, 97, 109, 101>> }

Hash(key, nbuckets) ==
  /\ last' = [op |-> "hash", key |-> key, value |-> NULL,
              ret |-> hash(key, nbuckets), nbuckets |-> nbuckets,
              resized |-> FALSE, afterClear |-> FALSE]
  /\ pre' = this
  /\ UNCHANGED <<bucketCount, buckets, size, maxLoadFactor,
                 forcedResizes, setsOnly, lastSet>>

NextHash == \E key \in HashKeys, nbuckets \in 1..MaxHashBuckets : Hash(key, nbuckets)

SpecHash == Init /\ [][NextHash]_vars

\* ==== properties =========================================================

\* C1: at every point where a set call has returned, size / bucketCount is
\* at most maxLoadFactor.
LoadFactorWithinMaxAfterSet ==
  last.op = "set" =>
    size * maxLoadFactor[2] <= maxLoadFactor[1] * bucketCount

\* C2: set(k, v) with a non-null v, immediately followed by get(k), returns
\* v, whether or not the call resized and whether or not k was present.
RoundTrip ==
  (last.op = "set" /\ last.value # NULL) => get(this, last.key) = last.value

\* a set of a key that was already present, with a non-null value, which
\* resized the table, has returned
RoundTripWitness ==
  /\ last.op = "set"
  /\ last.value # NULL
  /\ last.resized
  /\ present(pre, last.key)
  /\ get(pre, last.key) # last.value
  /\ hash(last.key, pre.bucketCount) # hash(last.key, bucketCount)

\* C3: after a run of set calls only, from the empty table, that forced at
\* least two resizes, every inserted key is retrievable with its last-set
\* value, length() is the number of distinct keys inserted, and no entry
\* is lost, duplicated or holds another key's value.
ResizePreservesData ==
  (setsOnly /\ forcedResizes >= 2) =>
    /\ \A k \in Keys :
         lastSet[k] # UNSET =>
           get(this, k) = lastSet[k] /\ occurrences(this, k) = 1
    /\ length(this) = Cardinality({k \in Keys : lastSet[k] # UNSET})
    /\ LET w == walk(this)
       IN \A i \in 1..Len(w) :
            /\ w[i].key \in Keys
            /\ w[i].value = lastSet[w[i].key]

\* three distinct keys are in, two resizes were forced, two entries share a
\* bucket of the grown table, and the last call overwrote a value
ResizePreservesDataWitness ==
  /\ setsOnly
  /\ forcedResizes >= 2
  /\ size = 3
  /\ \E i \in 1..Len(buckets) : Len(buckets[i].entries) >= 2
  /\ last.op = "set"
  /\ present(pre, last.key)
  /\ get(pre, last.key) # last.value

\* C4: set(k, v2) on a present key k leaves length() unchanged, makes
\* get(k) return v2 and leaves exactly one entry with key k, also when the
\* call resizes.
UpdateNotDuplicate ==
  (last.op = "set" /\ present(pre, last.key)) =>
    /\ length(this) = length(pre)
    /\ get(this, last.key) = last.value
    /\ occurrences(this, last.key) = 1

\* a resizing set overwrote the value of a key that shared its bucket with
\* another key
UpdateNotDuplicateWitness ==
  /\ last.op = "set"
  /\ present(pre, last.key)
  /\ last.resized
  /\ last.value # NULL
  /\ get(pre, last.key) # last.value
  /\ Len(pre.buckets[hash(last.key, pre.bucketCount) + 1].entries) >= 2

\* C5: remove(k) on a present key k returns true, decreases length() by
\* exactly 1, and afterwards get(k) is null and has(k) is false.
Deletion ==
  (last.op = "remove" /\ present(pre, last.key)) =>
    /\ last.ret = TRUE
    /\ length(this) = length(pre) - 1
    /\ get(this, last.key) = NULL
    /\ ~has(this, last.key)

\* a present key with a non-null value was removed from a bucket it shared
DeletionWitness ==
  /\ last.op = "remove"
  /\ present(pre, last.key)
  /\ has(pre, last.key)
  /\ Len(pre.buckets[hash(last.key, pre.bucketCount) + 1].entries) >= 2

\* C6: remove(k) on an absent key returns false and leaves size,
\* bucketCount and every bucket's contents unchanged.
Absence ==
  (last.op = "remove" /\ ~present(pre, last.key)) =>
    /\ last.ret = FALSE
    /\ size = pre.size
    /\ bucketCount = pre.bucketCount
    /\ buckets = pre.buckets

\* an absent key was removed while its bucket held another key's entry
AbsenceWitness ==
  /\ last.op = "remove"
  /\ ~present(pre, last.key)
  /\ Len(pre.buckets[hash(last.key, pre.bucketCount) + 1].entries) >= 1
  /\ pre.size >= 1

\* C7: has(k) is true exactly when an entry with key k is in the table,
\* also when the entry's value is null.
HasIffPresent ==
  \A k \in Keys : has(this, k) <=> present(this, k)

\* C8: after clear(), length() is 0, keys(), values() and entries() are
\* empty, get(k) is null for every k, bucketCount and the bucket array
\* length are what they were before; a set that follows works.
ClearEmpties ==
  /\ last.op = "clear" =>
       /\ length(this) = 0
       /\ keys(this) = <<>>
       /\ values(this) = <<>>
       /\ entries(this) = <<>>
       /\ \A k \in Keys : get(this, k) = NULL
       /\ bucketCount = pre.bucketCount
       /\ Len(buckets) = Len(pre.buckets)
  /\ (last.op = "set" /\ last.afterClear) =>
       /\ get(this, last.key) = last.value
       /\ length(this) = 1
       /\ keys(this) = <<last.key>>

\* a table that had grown and held three entries was cleared
ClearEmptiesWitness ==
  /\ last.op = "clear"
  /\ pre.size = 3
  /\ forcedResizes >= 1
  /\ pre.bucketCount # DefaultInitialCapacity

\* C9: size is the sum of the entry counts over all buckets, and length()
\* is the number of elements of entries().
SizeIsEntryCount ==
  /\ size = entryCountFrom(buckets, 1)
  /\ length(this) = Len(entries(this))

\* after sets, one of which forced a resize, a remove left one entry
SizeIsEntryCountWitness ==
  /\ last.op = "remove"
  /\ last.ret = TRUE
  /\ size = 1
  /\ forcedResizes >= 1
  /\ ~setsOnly
  /\ \E k \in Keys : lastSet[k] = UNSET /\ ~present(pre, k)

\* C10: no key appears in more than one entry of the table.
NoDuplicateKeys ==
  LET w == walk(this)
  IN \A i, j \in 1..Len(w) : w[i].key = w[j].key => i = j

\* a key was set, a resize moved it to another bucket, and it was set again
\* while two more keys were present
NoDuplicateKeysWitness ==
  /\ last.op = "set"
  /\ present(pre, last.key)
  /\ hash(last.key, pre.bucketCount) # hash(last.key, bucketCount)
  /\ Len(walk(this)) = 3

\* C11: get, has, length, loadFactor, keys, values and entries leave size,
\* bucketCount and every bucket's entry sequence unchanged, and the same
\* query called twice in a row returns the same result.
QueriesDoNotMutate ==
  last.op \in QueryOps =>
    /\ size = pre.size
    /\ bucketCount = pre.bucketCount
    /\ buckets = pre.buckets
    /\ maxLoadFactor = pre.maxLoadFactor
    /\ last.repeated => last.ret = last.prevRet

\* get was called twice in a row on a present key of a table that also has
\* a null bucket slot and a bucket emptied by remove
QueriesDoNotMutateWitness ==
  /\ last.op = "get"
  /\ last.repeated
  /\ last.ret # NULL
  /\ size >= 2
  /\ \E i \in 1..Len(buckets) : buckets[i].isNull
  /\ \E i \in 1..Len(buckets) : ~buckets[i].isNull /\ buckets[i].entries = <<>>

\* C12: a non-positive initial bucket count or a maxLoadFactor outside
\* (0, 1] is rejected at construction, so no set, get or remove ever runs
\* on a table with bucketCount <= 0 or an out-of-range threshold.
MalformedArgumentsRejected ==
  last.op \in {"set", "get", "remove"} =>
    /\ bucketCount > 0
    /\ maxLoadFactor[1] > 0
    /\ maxLoadFactor[1] <= maxLoadFactor[2]

\* C13: bucketCount is a positive integer, the bucket array has exactly
\* bucketCount slots, and every resize doubles bucketCount.
BucketCountPositiveAndDoubling ==
  /\ bucketCount \in Nat \ {0}
  /\ Len(buckets) = bucketCount
  /\ last.resized =>
       /\ bucketCount = 2 * pre.bucketCount
       /\ bucketCount > pre.bucketCount
       /\ Len(buckets) = 2 * Len(pre.buckets)

\* a set has just forced the third doubling of a table built with 1 bucket
BucketCountPositiveAndDoublingWitness ==
  /\ last.op = "set"
  /\ last.resized
  /\ forcedResizes = 3
  /\ pre.bucketCount = 4
  /\ size = 3

\* C14: every entry sits in the bucket whose index is hash(entry.key,
\* bucketCount), so the scan of that one bucket finds every present key.
EntriesInTheirHashBucket ==
  /\ \A i \in 1..Len(buckets) :
       \A j \in 1..Len(buckets[i].entries) :
         hash(buckets[i].entries[j].key, bucketCount) = i - 1
  /\ \A k \in Keys :
       present(this, k) =>
         findIndex(buckets[hash(k, bucketCount) + 1].entries, k) # 0

\* a resize has just moved two entries out of the bucket they shared with a
\* third
EntriesInTheirHashBucketWitness ==
  /\ last.resized
  /\ size = 3
  /\ \E i \in 1..Len(pre.buckets) : Len(pre.buckets[i].entries) = 3
  /\ \E k \in Keys :
       present(this, k) /\ hash(k, pre.bucketCount) # hash(k, bucketCount)

\* C15: set doubles the bucket count, once, exactly when size / bucketCount
\* >= maxLoadFactor at entry, whether or not the key is present; otherwise
\* it leaves bucketCount as it was.
SetResizesIffLoadFactorReached ==
  last.op = "set" =>
    IF pre.size * maxLoadFactor[2] >= maxLoadFactor[1] * pre.bucketCount
    THEN bucketCount = 2 * pre.bucketCount
    ELSE bucketCount = pre.bucketCount

\* a set on a present key met size / bucketCount equal to maxLoadFactor and
\* doubled the bucket count
SetResizesIffLoadFactorReachedWitness ==
  /\ last.op = "set"
  /\ present(pre, last.key)
  /\ pre.size * maxLoadFactor[2] = maxLoadFactor[1] * pre.bucketCount
  /\ bucketCount = 2 * pre.bucketCount

\* C16: bucketCount never decreases, and remove, clear and the queries
\* leave it unchanged (it changes only where set, or resize itself, doubles
\* it).
BucketCountGrowthOnly ==
  /\ bucketCount >= pre.bucketCount
  /\ last.op \in {"remove", "clear"} \cup QueryOps =>
       bucketCount = pre.bucketCount

\* the only entry of a grown table was removed, and the bucket count stayed
BucketCountGrowthOnlyWitness ==
  /\ last.op = "remove"
  /\ last.ret = TRUE
  /\ size = 0
  /\ forcedResizes >= 2
  /\ bucketCount >= 4

\* C17: for every key and every positive bucket count, hash returns an
\* integer in [0, bucketCount) that is the fold acc = (31 * acc + charCode)
\* mod bucketCount from acc = 0, i.e. the key read as a number in base 31,
\* reduced mod bucketCount; it is a function of (key, bucketCount) alone.
HashInRangeAndFold ==
  last.op = "hash" =>
    LET key == last.key
        n == last.nbuckets
        base31[i \in 0..Len(key)] ==
          IF i = 0 THEN 0 ELSE 31 * base31[i - 1] + key[i]
        fold[i \in 0..Len(key)] ==
          IF i = 0 THEN 0 ELSE (31 * fold[i - 1] + key[i]) % n
    IN /\ last.ret \in 0..(n - 1)
       /\ last.ret = base31[Len(key)] % n
       /\ last.ret = fold[Len(key)]
       /\ key = <<>> => last.ret = 0

\* "name" was hashed for 7 buckets: every step of the fold wraps around
HashInRangeAndFoldWitness ==
  /\ last.op = "hash"
  /\ last.key = <<110, 97, 109, 101>>
  /\ last.nbuckets = 7
  /\ last.ret = 1

\* C18: keys(), values() and entries() list the table bucket by bucket in
\* index order, each bucket in stored order: entries()[i] is the pair of
\* keys()[i] and values()[i], every present key is listed exactly once, and
\* each of the three has length() elements.
EnumerationsAligned ==
  LET ks == keys(this)
      vs == values(this)
      es == entries(this)
      inBucket(b) == [j \in 1..Len(buckets[b].entries) |-> buckets[b].entries[j].key]
      listedFor(b) == SelectSeq(ks, LAMBDA k : hash(k, bucketCount) = b - 1)
  IN /\ Len(ks) = length(this)
     /\ Len(vs) = length(this)
     /\ Len(es) = length(this)
     /\ \A i \in 1..Len(es) : es[i] = <<ks[i], vs[i]>>
     /\ \A k \in Keys :
          (\E b \in 1..Len(buckets) : \E j \in 1..Len(buckets[b].entries) :
             buckets[b].entries[j].key = k)
          => Cardinality({i \in 1..Len(ks) : ks[i] = k}) = 1
     /\ \A i, j \in 1..Len(ks) :
          i < j => hash(ks[i], bucketCount) <= hash(ks[j], bucketCount)
     /\ \A b \in 1..Len(buckets) : listedFor(b) = inBucket(b)

\* entries() returned three pairs with differing values from a table with
\* one entry in bucket 0 and two in a later bucket
EnumerationsAlignedWitness ==
  /\ last.op = "entries"
  /\ Len(last.ret) = 3
  /\ last.ret[1][2] # last.ret[3][2]
  /\ Len(buckets[1].entries) = 1
  /\ \E b \in 2..Len(buckets) : Len(buckets[b].entries) = 2

\* C19: set(k, v) and remove(k) leave the presence and the value of every
\* other key as they were, also when set resizes; remove(k) keeps the
\* remaining entries of every bucket in their order.
OtherKeysUntouched ==
  /\ last.op \in {"set", "remove"} =>
       \A k \in Keys \ {last.key} :
         /\ get(this, k) = get(pre, k)
         /\ present(this, k) = present(pre, k)
  /\ last.op = "remove" =>
       /\ Len(buckets) = Len(pre.buckets)
       /\ \A b \in 1..Len(buckets) :
            buckets[b].entries =
              SelectSeq(pre.buckets[b].entries, LAMBDA e : e.key # last.key)

\* the first of three entries of one bucket was removed
OtherKeysUntouchedWitness ==
  /\ last.op = "remove"
  /\ last.ret = TRUE
  /\ LET b == hash(last.key, pre.bucketCount) + 1
     IN /\ Len(pre.buckets[b].entries) = 3
        /\ pre.buckets[b].entries[1].key = last.key
        /\ pre.buckets[b].entries[2].value # pre.buckets[b].entries[3].value

\* C20: the table refines a key-to-value map on which set overwrites,
\* remove deletes and clear empties (lastSet): as long as no null value is
\* stored, get, has, length, the result of remove and the set of pairs of
\* entries() are those of the map, whatever the initial bucket count, the
\* collisions and the resizes.
RefinesAbstractMap ==
  (\A k \in Keys : lastSet[k] # NULL) =>
    LET dom == {k \in Keys : lastSet[k] # UNSET}
        es == entries(this)
    IN /\ \A k \in Keys :
            /\ get(this, k) = (IF k \in dom THEN lastSet[k] ELSE NULL)
            /\ has(this, k) <=> k \in dom
       /\ length(this) = Cardinality(dom)
       /\ {es[i] : i \in 1..Len(es)} = {<<k, lastSet[k]>> : k \in dom}
       /\ Len(es) = Cardinality(dom)
       /\ last.op = "remove" => last.ret = last.had
       /\ last.op = "get" =>
            last.ret = (IF last.key \in dom THEN lastSet[last.key] ELSE NULL)
       /\ last.op = "has" => last.ret = (last.key \in dom)
       /\ last.op = "length" => last.ret = Cardinality(dom)

\* after sets that forced two resizes, a remove took one of three keys out
\* of a bucket it shared with another key
RefinesAbstractMapWitness ==
  /\ last.op = "remove"
  /\ last.had
  /\ last.ret = TRUE
  /\ forcedResizes >= 2
  /\ \A k \in Keys : lastSet[k] # NULL
  /\ Cardinality({k \in Keys : lastSet[k] # UNSET}) = 2
  /\ Len(pre.buckets[hash(last.key, pre.bucketCount) + 1].entries) >= 2
  /\ pre.buckets[hash(last.key, pre.bucketCount) + 1].entries[1].key # last.key

====
